---- MODULE Spec2Model ----
(***************************************************************************)
(* Model of api/index.py: the M3U playlist parser parse_m3u and the        *)
(* memoised accessor get_channels (cachetools.cached over a TTLCache of    *)
(* one entry).  Strings are sequences of one-character strings, so that    *)
(* strip, split, startswith and the attribute regular expressions are      *)
(* computed as the code computes them.                                     *)
(***************************************************************************)
EXTENDS Integers, Sequences, FiniteSets, TLC

\* state of one run of parse_m3u
VARIABLES content, lines, idx, current_channel, channels, ppc

\* the timer, the TTLCache entry and the threads inside get_channels()
VARIABLES now, ticks, data, link, pc, remote, val, st, ret, raised

\* history of the calls, kept to state the properties
VARIABLES calls, cyc, fetched, failed, lastFailed, afterFail, snap, expect,
          expectRecs, obs, fetches

\* one request to /api/channels or /api/categories: request.args, the route
\* that served it and the list it serialised
VARIABLES args, handler, response

pvars == <<content, lines, idx, current_channel, channels, ppc>>

cvars == <<now, ticks, data, link, pc, remote, val, st, ret, raised>>

hvars == <<calls, cyc, fetched, failed, lastFailed, afterFail, snap, expect,
           expectRecs, obs, fetches>>

qvars == <<args, handler, response>>

vars == <<content, lines, idx, current_channel, channels, ppc,
          now, ticks, data, link, pc, remote, val, st, ret, raised,
          calls, cyc, fetched, failed, lastFailed, afterFail, snap, expect,
          expectRecs, obs, fetches, args, handler, response>>

(***************************************************************************)
(* Bounds of the model.                                                    *)
(***************************************************************************)
MaxLines == 3

NumCallers == 2

MaxCalls == 3

MaxTicks == 2

\* records in the snapshot that the query routes are run on
MaxRecords == 2

\* TTLCache(maxsize=1, ttl=3600)
TTL == 3600

(***************************************************************************)
(* String primitives of Python used by parse_m3u.                          *)
(***************************************************************************)
SetMin(S) == CHOOSE x \in S : \A y \in S : x <= y

SetMax(S) == CHOOSE x \in S : \A y \in S : y <= x

IsSpace(ch) == ch \in {" ", "\t", "\r", "\n", "\f"}

\* str.strip(): drop leading and trailing whitespace
Strip(s) ==
  LET keep == {k \in 1..Len(s) : ~IsSpace(s[k])}
  IN  IF keep = {} THEN <<>> ELSE SubSeq(s, SetMin(keep), SetMax(keep))

\* s[k:].startswith(p), k counted from 1
StartsWithAt(s, k, p) ==
  /\ k + Len(p) - 1 <= Len(s)
  /\ SubSeq(s, k, k + Len(p) - 1) = p

\* str.startswith(p)
StartsWith(s, p) == StartsWithAt(s, 1, p)

\* str.split(sep) for a one-character separator: every occurrence separates
\* two (possibly empty) parts
RECURSIVE Split(_, _)
Split(s, sep) ==
  LET at == {k \in 1..Len(s) : s[k] = sep}
  IN  IF at = {} THEN <<s>>
      ELSE <<SubSeq(s, 1, SetMin(at) - 1)>>
             \o Split(SubSeq(s, SetMin(at) + 1, Len(s)), sep)

\* content.split('\n')
SplitLines(s) == Split(s, "\n")

\* line.split(',', 1): at most one split, at the first comma
SplitComma1(s) ==
  LET cm == {k \in 1..Len(s) : s[k] = ","}
  IN  IF cm = {} THEN <<s>>
      ELSE <<SubSeq(s, 1, SetMin(cm) - 1), SubSeq(s, SetMin(cm) + 1, Len(s))>>

NoMatch == [matched |-> FALSE, group1 |-> <<>>]

\* re.search(key + r'="([^"]*)"', s): leftmost occurrence of key=" that is
\* followed by a closing quote; group(1) is the text up to that quote
ReSearch(key, s) ==
  LET pat == key \o <<"=", "\"">>
      closes(k) == {j \in (k + Len(pat))..Len(s) : s[j] = "\""}
      starts == {k \in 1..Len(s) : StartsWithAt(s, k, pat) /\ closes(k) # {}}
  IN  IF starts = {} THEN NoMatch
      ELSE LET k == SetMin(starts)
           IN  [matched |-> TRUE,
                group1 |-> SubSeq(s, k + Len(pat), SetMin(closes(k)) - 1)]

EXTINF == <<"#", "E", "X", "T", "I", "N", "F", ":">>

HTTP == <<"h", "t", "t", "p">>

TVG_ID == <<"t", "v", "g", "-", "i", "d">>

TVG_LOGO == <<"t", "v", "g", "-", "l", "o", "g", "o">>

GROUP_TITLE == <<"g", "r", "o", "u", "p", "-", "t", "i", "t", "l", "e">>

Unknown == <<"U", "n", "k", "n", "o", "w", "n">>

General == <<"G", "e", "n", "e", "r", "a", "l">>

\* the empty dict {} (falsy in Python)
EmptyDict == <<>>

\* truth value of a dict
Truthy(d) == DOMAIN d # {}

(***************************************************************************)
(* parse_m3u: one iteration of the loop over the lines.                    *)
(***************************************************************************)
IsExtinfLine(line) == StartsWith(line, EXTINF)

IsUrlLine(line) == ~IsExtinfLine(line) /\ StartsWith(line, HTTP)

\* a dict that gets a key only for the attributes that were found
ExtinfChannel_onlyMatched(line) ==
  LET info == SplitComma1(line)
      params_part == info[1]
      name == IF Len(info) > 1 THEN info[2] ELSE Unknown
      tvg_id == ReSearch(TVG_ID, params_part)
      tvg_logo == ReSearch(TVG_LOGO, params_part)
      group_title == ReSearch(GROUP_TITLE, params_part)
      keys == {"name"} \cup (IF tvg_logo.matched THEN {"logo"} ELSE {})
                \cup (IF group_title.matched THEN {"group"} ELSE {})
                \cup (IF tvg_id.matched THEN {"id"} ELSE {})
  IN  [k \in keys |->
         IF k = "name" THEN name
         ELSE IF k = "logo" THEN tvg_logo.group1
         ELSE IF k = "group" THEN group_title.group1
         ELSE tvg_id.group1]

\* a dict whose group starts out empty instead of "General"
ExtinfChannel_emptyGroup(line) ==
  LET info == SplitComma1(line)
      params_part == info[1]
      name == IF Len(info) > 1 THEN info[2] ELSE Unknown
      tvg_id == ReSearch(TVG_ID, params_part)
      tvg_logo == ReSearch(TVG_LOGO, params_part)
      group_title == ReSearch(GROUP_TITLE, params_part)
  IN  [name |-> name,
       logo |-> IF tvg_logo.matched THEN tvg_logo.group1 ELSE <<>>,
       group |-> IF group_title.matched THEN group_title.group1 ELSE <<>>,
       id |-> IF tvg_id.matched THEN tvg_id.group1 ELSE <<>>]

\* the dict built from one #EXTINF line
ExtinfChannel(line) ==
  LET info == SplitComma1(line)
      params_part == info[1]
      name == IF Len(info) > 1 THEN info[2] ELSE Unknown
      tvg_id == ReSearch(TVG_ID, params_part)
      tvg_logo == ReSearch(TVG_LOGO, params_part)
      group_title == ReSearch(GROUP_TITLE, params_part)
  IN  [name |-> name,
       logo |-> IF tvg_logo.matched THEN tvg_logo.group1 ELSE <<>>,
       group |-> IF group_title.matched THEN group_title.group1 ELSE General,
       id |-> IF tvg_id.matched THEN tvg_id.group1 ELSE <<>>]

\* a metadata branch that emits the pending record when a new one starts
ExtinfStep_flush(line, cc, chs) ==
  [current_channel |-> ExtinfChannel(line),
   channels |-> IF Truthy(cc)
                THEN Append(chs, [k \in DOMAIN cc \cup {"url"} |->
                                    IF k = "url" THEN <<>> ELSE cc[k]])
                ELSE chs]

\* an #EXTINF branch that keeps a pending record instead of replacing it
ExtinfStep_keepFirst(line, cc, chs) ==
  [current_channel |-> IF Truthy(cc) THEN cc ELSE ExtinfChannel(line),
   channels |-> chs]

\* the branch taken on a line that starts with #EXTINF:
ExtinfStep(line, cc, chs) ==
  [current_channel |-> ExtinfChannel(line), channels |-> chs]

\* an http branch that emits a record whether or not one is pending
UrlStep_noPendingCheck(line, cc, chs) ==
  [current_channel |-> EmptyDict,
   channels |-> Append(chs, [k \in DOMAIN cc \cup {"url"} |->
                               IF k = "url" THEN line ELSE cc[k]])]

\* an http branch that forgets to clear the pending record
UrlStep_noClear(line, cc, chs) ==
  IF Truthy(cc)
  THEN [current_channel |-> cc,
        channels |-> Append(chs, [k \in DOMAIN cc \cup {"url"} |->
                                    IF k = "url" THEN line ELSE cc[k]])]
  ELSE [current_channel |-> cc, channels |-> chs]

\* an http branch that puts the new record in front of the others
UrlStep_prepend(line, cc, chs) ==
  IF Truthy(cc)
  THEN [current_channel |-> EmptyDict,
        channels |-> <<[k \in DOMAIN cc \cup {"url"} |->
                          IF k = "url" THEN line ELSE cc[k]]>> \o chs]
  ELSE [current_channel |-> cc, channels |-> chs]

\* the branch taken on a line that starts with http
UrlStep(line, cc, chs) ==
  IF Truthy(cc)
  THEN [current_channel |-> EmptyDict,
        channels |-> Append(chs, [k \in DOMAIN cc \cup {"url"} |->
                                    IF k = "url" THEN line ELSE cc[k]])]
  ELSE [current_channel |-> cc, channels |-> chs]

\* the body of the for loop, applied to the raw line
LineStep(raw, cc, chs) ==
  LET line == Strip(raw)
  IN  IF IsExtinfLine(line) THEN ExtinfStep(line, cc, chs)
      ELSE IF IsUrlLine(line) THEN UrlStep(line, cc, chs)
      ELSE [current_channel |-> cc, channels |-> chs]

RECURSIVE ParseLoop(_, _, _)
ParseLoop(ls, cc, chs) ==
  IF ls = <<>> THEN chs
  ELSE LET nxt == LineStep(Head(ls), cc, chs)
       IN  ParseLoop(Tail(ls), nxt.current_channel, nxt.channels)

\* parse_m3u as a function of the whole text
parse_m3u(text) == ParseLoop(SplitLines(text), EmptyDict, <<>>)

(***************************************************************************)
(* Input texts: up to MaxLines lines drawn from CandidateLines and joined  *)
(* with newlines.                                                          *)
(***************************************************************************)
LineFull ==
  <<"#", "E", "X", "T", "I", "N", "F", ":", "-", "1", " ", "t", "v", "g", "-",
    "i", "d", "=", "\"", "a", "\"", " ", "t", "v", "g", "-", "l", "o", "g", "o",
    "=", "\"", "h", "t", "t", "p", ":", "/", "/", "l", "\"", " ", "g", "r", "o",
    "u", "p", "-", "t", "i", "t", "l", "e", "=", "\"", "N", ";", "S", "\"", ",",
    "A", ",", "b">>

LineNameOnly == <<"#", "E", "X", "T", "I", "N", "F", ":", "-", "1", ",", "B">>

LineNoComma ==
  <<"#", "E", "X", "T", "I", "N", "F", ":", "0", " ", "g", "r", "o", "u", "p",
    "-", "t", "i", "t", "l", "e", "=", "\"", "N", "\"">>

LineUrlX == <<"h", "t", "t", "p", ":", "/", "/", "x">>

LineUrlPadded == <<" ", "h", "t", "t", "p", "s", ":", "/", "/", "y", "\r">>

LineBlank == <<>>

LineHeader == <<"#", "E", "X", "T", "M", "3", "U">>

LineUpperUrl == <<"H", "T", "T", "P", ":", "/", "/", "z">>

LineDupAttr ==
  <<"\t", "#", "E", "X", "T", "I", "N", "F", ":", "1", " ", "t", "v", "g", "-",
    "i", "d", "=", "\"", "\"", " ", "t", "v", "g", "-", "i", "d", "=", "\"", "c",
    "\"", ",", " ">>

LineCommaInAttr ==
  <<"#", "E", "X", "T", "I", "N", "F", ":", "-", "1", " ", "t", "v", "g", "-",
    "l", "o", "g", "o", "=", "\"", "u", ",", "v", "\"", ",", "C">>

CandidateLines ==
  {LineFull, LineNameOnly, LineNoComma, LineUrlX, LineUrlPadded, LineBlank,
   LineUpperUrl, LineDupAttr, LineCommaInAttr}

RECURSIVE JoinLines(_)
JoinLines(ls) ==
  IF ls = <<>> THEN <<>>
  ELSE IF Len(ls) = 1 THEN ls[1]
  ELSE ls[1] \o <<"\n">> \o JoinLines(Tail(ls))

\* the lines of which longer texts are made: two metadata lines, two URLs
CoreLines == {LineNameOnly, LineNoComma, LineUrlX, LineUrlPadded}

\* every text of up to MaxLines candidate lines, and every text of
\* MaxLines + 1 core lines (room for two complete records)
LineSeqs ==
  UNION {[1..n -> CandidateLines] : n \in 0..MaxLines}
    \cup [1..(MaxLines + 1) -> CoreLines]

Inputs == {JoinLines(ls) : ls \in LineSeqs}

(***************************************************************************)
(* The parser run step by step: idx is the position of the for loop.       *)
(***************************************************************************)
ParseStart ==
  /\ content \in Inputs
  /\ lines = SplitLines(content)
  /\ idx = 1
  /\ current_channel = EmptyDict
  /\ channels = <<>>
  /\ ppc = "loop"

ParseApply ==
  LET nxt == LineStep(lines[idx], current_channel, channels)
  IN  /\ current_channel' = nxt.current_channel
      /\ channels' = nxt.channels
      /\ idx' = idx + 1
      /\ UNCHANGED <<content, lines, ppc, cvars, hvars, qvars>>

ParseExtinf ==
  /\ ppc = "loop" /\ idx <= Len(lines)
  /\ IsExtinfLine(Strip(lines[idx]))
  /\ ParseApply

ParseUrl ==
  /\ ppc = "loop" /\ idx <= Len(lines)
  /\ IsUrlLine(Strip(lines[idx]))
  /\ ParseApply

ParseOther ==
  /\ ppc = "loop" /\ idx <= Len(lines)
  /\ ~IsExtinfLine(Strip(lines[idx])) /\ ~IsUrlLine(Strip(lines[idx]))
  /\ ParseApply

ParseReturn ==
  /\ ppc = "loop" /\ idx > Len(lines)
  /\ ppc' = "done"
  /\ UNCHANGED <<content, lines, idx, current_channel, channels, cvars, hvars, qvars>>


(***************************************************************************)
(* The remote playlist host as requests.get sees it.                       *)
(***************************************************************************)
Body1 == JoinLines(<<LineHeader, LineNameOnly, LineUrlX>>)

Body2 == JoinLines(<<LineNoComma, LineUrlPadded, LineUrlX, LineBlank>>)

\* requests.get either raises (connection error) or returns a response
Responses ==
  {[kind |-> "exception", status |-> 0, text |-> <<>>]}
    \cup {[kind |-> "response", status |-> 200, text |-> t] :
            t \in {Body1, Body2}}
    \cup {[kind |-> "response", status |-> 404, text |-> Body1]}

\* the Fetcher step failed: network error or non-success status
FetchFailed(r) == r.kind = "exception" \/ r.status \notin 200..299

\* response.raise_for_status() raises HTTPError on 4xx and 5xx
RaisesForStatus(r) == r.status >= 400 /\ r.status < 600

\* an except clause that lets the exception out
OnException_reraise == [raised |-> TRUE, value |-> <<>>]

\* what the except clause of get_channels makes of an exception
OnException == [raised |-> FALSE, value |-> <<>>]

\* a body that calls requests.get once more when the first call failed
Retries_once(r) == IF FetchFailed(r) THEN 1 ELSE 0

\* further calls of requests.get made by the body after the first one: the
\* try block has no loop and the except clause only prints and returns
Retries(r) == 0

\* the body of get_channels, given what requests.get produced
get_channels(r) ==
  IF r.kind = "exception" THEN OnException
  ELSE IF RaisesForStatus(r) THEN OnException
  ELSE [raised |-> FALSE, value |-> parse_m3u(r.text)]

(***************************************************************************)
(* The two query handlers, as functions of what get_channels() returned    *)
(* and of the query parameters.                                            *)
(***************************************************************************)
Range(f) == {f[k] : k \in DOMAIN f}

\* the characters of the model (ASCII without the backquote) in code point
\* order
CharOrder ==
  <<"\t", "\n", "\f", "\r", " ", "!", "\"", "#", "$", "%", "&", "'", "(",
    ")", "*", "+", ",", "-", ".", "/", "0", "1", "2", "3", "4", "5", "6",
    "7", "8", "9", ":", ";", "<", "=", ">", "?", "@", "A", "B", "C", "D",
    "E", "F", "G", "H", "I", "J", "K", "L", "M", "N", "O", "P", "Q", "R",
    "S", "T", "U", "V", "W", "X", "Y", "Z", "[", "\\", "]", "^", "_",
    "a", "b", "c", "d", "e", "f", "g", "h", "i", "j", "k", "l", "m", "n",
    "o", "p", "q", "r", "s", "t", "u", "v", "w", "x", "y", "z", "{", "|",
    "}", "~">>

UpperCase ==
  <<"A", "B", "C", "D", "E", "F", "G", "H", "I", "J", "K", "L", "M", "N",
    "O", "P", "Q", "R", "S", "T", "U", "V", "W", "X", "Y", "Z">>

LowerCase ==
  <<"a", "b", "c", "d", "e", "f", "g", "h", "i", "j", "k", "l", "m", "n",
    "o", "p", "q", "r", "s", "t", "u", "v", "w", "x", "y", "z">>

\* ord(ch), up to an order-preserving renumbering
Ord(ch) == CHOOSE k \in 1..Len(CharOrder) : CharOrder[k] = ch

\* str.lower() on one character
LowerChar(ch) ==
  IF \E k \in 1..Len(UpperCase) : UpperCase[k] = ch
  THEN LowerCase[CHOOSE k \in 1..Len(UpperCase) : UpperCase[k] = ch]
  ELSE ch

\* str.lower()
Lower(s) == [k \in 1..Len(s) |-> LowerChar(s[k])]

\* p in s, for strings
Contains(s, p) == \E k \in 1..(Len(s) + 1) : StartsWithAt(s, k, p)

\* a < b, for strings: lexicographic by code point
RECURSIVE StrLess(_, _)
StrLess(a, b) ==
  IF b = <<>> THEN FALSE
  ELSE IF a = <<>> THEN TRUE
  ELSE IF Head(a) = Head(b) THEN StrLess(Tail(a), Tail(b))
  ELSE Ord(Head(a)) < Ord(Head(b))

\* sorted(list(S)) for a set of strings
RECURSIVE Sorted(_)
Sorted(S) ==
  IF S = {} THEN <<>>
  ELSE LET least == CHOOSE x \in S : \A y \in S \ {x} : StrLess(x, y)
       IN  <<least>> \o Sorted(S \ {least})

\* c.get(key, default)
DictGet(c, key, default) == IF key \in DOMAIN c THEN c[key] ELSE default

\* a query parameter that was not given: request.args.get returns None
NoArg == [given |-> FALSE, value |-> <<>>]

Arg(v) == [given |-> TRUE, value |-> v]

\* truth value of an optional string: None and "" are falsy
ArgTruthy(a) == a.given /\ a.value # <<>>

\* a search filter that is run on all the channels instead of on the
\* channels the category filter kept
list_channels_searchAll(chs, category, search) ==
  LET byCategory(c) == "group" \in DOMAIN c /\ c["group"] = category.value
      needle == Lower(search.value)
      bySearch(c) ==
        \/ Contains(Lower(DictGet(c, "name", <<>>)), needle)
        \/ Contains(Lower(DictGet(c, "group", <<>>)), needle)
      filtered1 == IF ArgTruthy(category) THEN SelectSeq(chs, byCategory) ELSE chs
  IN  IF ArgTruthy(search) THEN SelectSeq(chs, bySearch) ELSE filtered1

\* a category filter that matches any atomic category of the group
list_channels_atomic(chs, category, search) ==
  LET byCategory(c) ==
        /\ "group" \in DOMAIN c
        /\ category.value \in Range(Split(c["group"], ";"))
      needle == Lower(search.value)
      bySearch(c) ==
        \/ Contains(Lower(DictGet(c, "name", <<>>)), needle)
        \/ Contains(Lower(DictGet(c, "group", <<>>)), needle)
      filtered1 == IF ArgTruthy(category) THEN SelectSeq(chs, byCategory) ELSE chs
  IN  IF ArgTruthy(search) THEN SelectSeq(filtered1, bySearch) ELSE filtered1

\* the list that list_channels serialises; SelectSeq is the list
\* comprehension [c for c in filtered if ...]
list_channels(chs, category, search) ==
  LET byCategory(c) == "group" \in DOMAIN c /\ c["group"] = category.value
      needle == Lower(search.value)
      bySearch(c) ==
        \/ Contains(Lower(DictGet(c, "name", <<>>)), needle)
        \/ Contains(Lower(DictGet(c, "group", <<>>)), needle)
      filtered1 == IF ArgTruthy(category) THEN SelectSeq(chs, byCategory) ELSE chs
  IN  IF ArgTruthy(search) THEN SelectSeq(filtered1, bySearch) ELSE filtered1

\* a listing that does not strip the parts
list_categories_noStrip(chs) ==
  LET parts(c) == Range(Split(DictGet(c, "group", General), ";"))
      all_cats == UNION {parts(c) : c \in Range(chs)}
  IN  Sorted(all_cats \ {<<>>})

\* the list that list_categories serialises
list_categories(chs) ==
  LET parts(c) == Range(Split(DictGet(c, "group", General), ";"))
      all_cats == UNION {{Strip(part) : part \in parts(c)} : c \in Range(chs)}
  IN  Sorted(all_cats \ {<<>>})

(***************************************************************************)
(* cache = TTLCache(maxsize=1, ttl=3600) under @cached(cache): one key,    *)
(* hence one value (data) and one expiry link.  cached() is given no lock, *)
(* so the threads of the server interleave between the statements of       *)
(* TTLCache.__setitem__: the value is written first, the link with the new *)
(* expiry after it.                                                        *)
(***************************************************************************)
Callers == 1..NumCallers

SeqCallers == {1}

TickSteps == {1, TTL - 1}

NoData == [present |-> FALSE, val |-> <<>>, cyc |-> 0, ok |-> FALSE]

NoLink == [present |-> FALSE, expires |-> 0, cyc |-> 0]

NoSnap == [present |-> FALSE, records |-> <<>>, fetchedAt |-> 0]

\* an expiry test that still serves the entry at the instant it expires
Expired_lateByOne(l, t) == t > l.expires

\* TTLCache: an entry is expired unless timer() < link.expires
Expired(l, t) == ~(t < l.expires)

\* TTLCache.__getitem__: a missing or expired key raises KeyError
LookupHit == data.present /\ (~link.present \/ ~Expired(link, now))

\* the expiry given to an entry stored at time t
ExpiresAt(t) == t + TTL

ThreadsInit ==
  /\ now = 0 /\ ticks = 0
  /\ pc = [c \in Callers |-> "idle"]
  /\ remote = [c \in Callers |-> "none"]
  /\ val = [c \in Callers |-> <<>>]
  /\ st = [c \in Callers |-> 0]
  /\ ret = [c \in Callers |-> <<>>]
  /\ raised = [c \in Callers |-> FALSE]
  /\ calls = 0
  /\ cyc = [c \in Callers |-> 0]
  /\ fetched = [c \in Callers |-> 0]
  /\ failed = [c \in Callers |-> FALSE]
  /\ lastFailed = FALSE
  /\ afterFail = [c \in Callers |-> FALSE]
  /\ snap = NoSnap
  /\ expect = [c \in Callers |-> "none"]
  /\ expectRecs = [c \in Callers |-> <<>>]
  /\ obs = [c \in Callers |-> [dcyc |-> 0, lcyc |-> 0]]
  /\ fetches = 0

\* the cache as TTLCache(maxsize=1, ttl=3600) constructs it: empty
CacheInit == data = NoData /\ link = NoLink /\ ThreadsInit

\* no request has been served
QueryIdle ==
  /\ args = [category |-> NoArg, search |-> NoArg]
  /\ handler = "none" /\ response = <<>>

ParseIdle ==
  /\ content = <<>> /\ lines = <<>> /\ idx = 1
  /\ current_channel = EmptyDict /\ channels = <<>> /\ ppc = "idle"

\* bookkeeping at the start of a call: what the stored snapshot promises
CallHistory(c) ==
  /\ calls' = calls + 1
  /\ cyc' = [cyc EXCEPT ![c] = calls + 1]
  /\ failed' = [failed EXCEPT ![c] = FALSE]
  /\ afterFail' = [afterFail EXCEPT ![c] = lastFailed]
  /\ IF snap.present /\ now - snap.fetchedAt < TTL
     THEN /\ expect' = [expect EXCEPT ![c] = "fresh"]
          /\ expectRecs' = [expectRecs EXCEPT ![c] = snap.records]
          /\ snap' = snap
     ELSE /\ expect' = [expect EXCEPT ![c] =
                          IF snap.present THEN "expired" ELSE "none"]
          /\ expectRecs' = [expectRecs EXCEPT ![c] = <<>>]
          /\ snap' = NoSnap

\* wrapper of cached(): cache[k] found, the stored value is returned
CallHit(c) ==
  /\ pc[c] = "idle" /\ calls < MaxCalls
  /\ LookupHit
  /\ ret' = [ret EXCEPT ![c] = data.val]
  /\ raised' = [raised EXCEPT ![c] = FALSE]
  /\ fetched' = [fetched EXCEPT ![c] = 0]
  /\ obs' = [obs EXCEPT ![c] = [dcyc |-> data.cyc, lcyc |-> link.cyc]]
  /\ lastFailed' = FALSE
  /\ CallHistory(c)
  /\ UNCHANGED <<now, ticks, data, link, pc, remote, val, st, fetches, pvars, qvars>>

\* wrapper of cached(): KeyError, get_channels runs and calls requests.get,
\* which has no timeout: a silent remote is waited for without end
CallMiss(c) ==
  /\ pc[c] = "idle" /\ calls < MaxCalls
  /\ ~LookupHit
  /\ pc' = [pc EXCEPT ![c] = "requesting"]
  /\ \E m \in {"answers", "silent"} : remote' = [remote EXCEPT ![c] = m]
  /\ raised' = [raised EXCEPT ![c] = FALSE]
  /\ fetched' = [fetched EXCEPT ![c] = 1]
  /\ fetches' = fetches + 1
  /\ CallHistory(c)
  /\ UNCHANGED <<now, ticks, data, link, val, st, ret, obs, lastFailed, pvars, qvars>>

\* requests.get returns or raises; get_channels computes its result
Respond(c, r) ==
  /\ pc[c] = "requesting" /\ remote[c] = "answers"
  /\ remote' = [remote EXCEPT ![c] = "none"]
  /\ failed' = [failed EXCEPT ![c] = FetchFailed(r)]
  /\ fetched' = [fetched EXCEPT ![c] = @ + Retries(r)]
  /\ fetches' = fetches + Retries(r)
  /\ LET out == get_channels(r)
     IN  IF out.raised
         THEN /\ pc' = [pc EXCEPT ![c] = "idle"]
              /\ raised' = [raised EXCEPT ![c] = TRUE]
              /\ lastFailed' = TRUE
              /\ val' = val
         ELSE /\ pc' = [pc EXCEPT ![c] = "store_data"]
              /\ val' = [val EXCEPT ![c] = out.value]
              /\ UNCHANGED <<raised, lastFailed>>
  /\ UNCHANGED <<now, ticks, data, link, st, ret, calls, cyc, afterFail,
                 snap, expect, expectRecs, obs, pvars, qvars>>

\* TTLCache.__setitem__, first half: expire(time), then the value is stored
StoreData(c) ==
  /\ pc[c] = "store_data"
  /\ st' = [st EXCEPT ![c] = now]
  /\ data' = [present |-> TRUE, val |-> val[c], cyc |-> cyc[c],
              ok |-> ~failed[c]]
  /\ link' = IF link.present /\ Expired(link, now) THEN NoLink ELSE link
  /\ pc' = [pc EXCEPT ![c] = "store_link"]
  /\ UNCHANGED <<now, ticks, remote, val, ret, raised, hvars, pvars, qvars>>

\* TTLCache.__setitem__, second half: the link gets the new expiry; the
\* wrapper returns the value
StoreLink(c) ==
  /\ pc[c] = "store_link"
  /\ link' = [present |-> TRUE, expires |-> ExpiresAt(st[c]), cyc |-> cyc[c]]
  /\ ret' = [ret EXCEPT ![c] = val[c]]
  /\ pc' = [pc EXCEPT ![c] = "idle"]
  /\ lastFailed' = failed[c]
  /\ snap' = IF ~failed[c] /\ ~(snap.present /\ now - snap.fetchedAt < TTL)
             THEN [present |-> TRUE, records |-> val[c], fetchedAt |-> st[c]]
             ELSE snap
  /\ UNCHANGED <<now, ticks, data, remote, val, st, raised, calls, cyc,
                 fetched, failed, afterFail, expect, expectRecs, obs, fetches,
                 pvars, qvars>>

\* the timer of the cache (time.monotonic) advances
Tick(d) ==
  /\ ticks < MaxTicks
  /\ now' = now + d
  /\ ticks' = ticks + 1
  /\ UNCHANGED <<data, link, pc, remote, val, st, ret, raised, hvars, pvars, qvars>>

Step(c) ==
  \/ CallHit(c)
  \/ CallMiss(c)
  \/ \E r \in Responses : Respond(c, r)
  \/ StoreData(c)
  \/ StoreLink(c)

(***************************************************************************)
(* The routes /api/channels and /api/categories, run on a cache that holds *)
(* a snapshot: get_channels() returns the stored list itself.              *)
(***************************************************************************)
News == <<"N", "e", "w", "s">>

Sports == <<"S", "p", "o", "r", "t", "s">>

\* a record as parse_m3u emits it, with the given name and group
Channel(name, group) ==
  [name |-> name, logo |-> <<>>, group |-> group, id |-> <<>>,
   url |-> LineUrlX]

\* records with plain, compound, padded and empty groups
RecordPool ==
  {Channel(<<"C", "N", "N">>, News),
   Channel(<<"E", "S", "P", "N">>, Sports),
   Channel(<<"M", "i", "x">>, News \o <<";">> \o Sports),
   Channel(<<"n", "e", "w", "s", " ", "2", "4">>, <<" ", "n", "e", "w", "s", " ", ";", " ", ";", "S", "p", "o", "r", "t", "s", ";">>),
   Channel(<<>>, <<>>)}

RecordSets == UNION {[1..n -> RecordPool] : n \in 0..MaxRecords}

\* values of ?category= : absent, empty, a group, an atomic category that is
\* also a group, a string that is no group
Categories == {NoArg, Arg(<<>>), Arg(News), Arg(Sports), Arg(<<"K", "i", "d", "s">>)}

\* values of ?search=
Searches == {NoArg, Arg(<<>>), Arg(<<"e", "s", "p">>), Arg(<<"N", "E", "W", "S">>), Arg(<<"s", ";">>)}

\* a route that filters the list it was given in place
AfterListChannels_inPlace(chs, cat, srch) == list_channels(chs, cat, srch)

\* the list get_channels() returned, after list_channels used it: filtered
\* starts as an alias of it and each filter binds filtered to a new list
AfterListChannels(chs, cat, srch) == chs

\* the list get_channels() returned, after list_categories read it
AfterListCategories(chs) == chs

\* GET /api/channels?category=..&search=.. served from the cache
ListChannels(cat, srch) ==
  /\ LookupHit
  /\ args' = [category |-> cat, search |-> srch]
  /\ handler' = "list_channels"
  /\ response' = list_channels(data.val, cat, srch)
  /\ data' = [data EXCEPT !.val = AfterListChannels(data.val, cat, srch)]
  /\ UNCHANGED <<now, ticks, link, pc, remote, val, st, ret, raised, hvars,
                 pvars>>

\* GET /api/categories served from the cache
ListCategories ==
  /\ LookupHit
  /\ args' = [category |-> NoArg, search |-> NoArg]
  /\ handler' = "list_categories"
  /\ response' = list_categories(data.val)
  /\ data' = [data EXCEPT !.val = AfterListCategories(data.val)]
  /\ UNCHANGED <<now, ticks, link, pc, remote, val, st, ret, raised, hvars,
                 pvars>>

\* a cache holding a snapshot stored at time 0
QueryInit ==
  /\ ParseIdle /\ ThreadsInit /\ QueryIdle
  /\ link = [present |-> TRUE, expires |-> ExpiresAt(0), cyc |-> 0]
  /\ \E recs \in RecordSets :
       data = [present |-> TRUE, val |-> recs, cyc |-> 0, ok |-> TRUE]

QueryNext ==
  \/ \E cat \in Categories, srch \in Searches : ListChannels(cat, srch)
  \/ ListCategories

\* the two routes, on every snapshot
QuerySpec == QueryInit /\ [][QueryNext]_vars

Init == ParseIdle /\ CacheInit /\ QueryIdle

\* the threaded server: any number of requests inside get_channels()
Next == (\E d \in TickSteps : Tick(d)) \/ (\E c \in Callers : Step(c))

Spec == Init /\ [][Next]_vars

\* sequential runs: one caller, one call at a time
SeqNext == (\E d \in TickSteps : Tick(d)) \/ (\E c \in SeqCallers : Step(c))

SeqSpec == Init /\ [][SeqNext]_vars

\* sequential runs in which every thread and every answering remote proceeds
FairSpec ==
  /\ Init /\ [][SeqNext]_vars
  /\ \A c \in SeqCallers :
       /\ WF_vars(\E r \in Responses : Respond(c, r))
       /\ WF_vars(StoreData(c))
       /\ WF_vars(StoreLink(c))

\* parse_m3u alone, on every input text
ParseInit == ParseStart /\ CacheInit /\ QueryIdle

ParseNext == ParseExtinf \/ ParseUrl \/ ParseOther \/ ParseReturn

ParseSpec == ParseInit /\ [][ParseNext]_vars

TypeOK ==
  /\ now \in Nat /\ ticks \in 0..MaxTicks
  /\ \A c \in Callers :
       pc[c] \in {"idle", "requesting", "store_data", "store_link"}

(***************************************************************************)
(* Properties of the catalog cache.                                        *)
(***************************************************************************)
Done(c) == pc[c] = "idle" /\ cyc[c] > 0

\* C1: in a sequential run, the call that follows a call whose fetch failed
\* invokes the Fetcher again, and the empty result of a failed fetch is never
\* stored in the cache.
C1_FailureNotCached ==
  /\ \A c \in SeqCallers : afterFail[c] => fetched[c] = 1
  /\ data.present => data.ok

\* C2: in a sequential run, a call made while now - fetchedAt < TTL after a
\* successful store performs no fetch and returns the stored records; the
\* first call made with now - fetchedAt >= TTL performs exactly one fetch.
C2_CacheFreshness ==
  \A c \in SeqCallers :
    /\ expect[c] = "fresh" =>
         fetched[c] = 0 /\ pc[c] = "idle" /\ ret[c] = expectRecs[c]
    /\ expect[c] = "expired" => fetched[c] = 1

\* a call made exactly TTL after the store of a successful fetch is waiting
\* for its own fetch
C2_Witness ==
  \E c \in SeqCallers :
    /\ expect[c] = "expired" /\ pc[c] = "requesting"
    /\ link.present /\ data.ok /\ now = link.expires

\* C3: at most one Fetcher invocation is in flight at any moment.
C3_SingleFlight == Cardinality({c \in Callers : pc[c] = "requesting"}) <= 1

\* the query parameters tried on the result of a failed call
SomeArgs == {NoArg, Arg(<<>>), Arg(General), Arg(<<"n">>)}

C5_BoundedFetch ==
  \A c \in SeqCallers : (pc[c] = "requesting") ~> (pc[c] = "idle")

\* C6: a call that starts while a successfully stored snapshot is younger
\* than TTL returns that snapshot's records, whatever the other callers do.
C6_FreshServed ==
  \A c \in Callers : (expect[c] = "fresh" /\ Done(c)) => ret[c] = expectRecs[c]

\* C7: the records a reader obtains from the cache and the expiry that
\* governs them were stored by the same fetch+parse cycle.
C7_AtomicSnapshot ==
  \A c \in Callers :
    (obs[c].dcyc # 0 /\ obs[c].lcyc # 0) => obs[c].dcyc = obs[c].lcyc

(***************************************************************************)
(* Properties of the parser.                                               *)
(***************************************************************************)
FieldNames == {"name", "logo", "group", "id", "url"}

\* the text key="v"
Quoted(key, v) == key \o <<"=", "\"">> \o v \o <<"\"">>

EndsWith(s, p) ==
  Len(s) >= Len(p) /\ SubSeq(s, Len(s) - Len(p) + 1, Len(s)) = p

\* the line scanned at position k, as the loop sees it
LineAt(k) == Strip(lines[k])

\* the last URL line before position k (0 if there is none)
PrevUrl(k) == SetMax({0} \cup {j \in 1..(k - 1) : IsUrlLine(LineAt(j))})

\* the #EXTINF lines between the previous URL line and position k
MetasBefore(k) == {m \in (PrevUrl(k) + 1)..(k - 1) : IsExtinfLine(LineAt(m))}

\* the loop is about to scan a line, and does
Scans == ppc = "loop" /\ idx <= Len(lines) /\ idx' = idx + 1

\* every field of r is text of the metadata line or the documented default
FromMetadata(r, line) ==
  /\ IsExtinfLine(line)
  /\ \/ r.name = Unknown /\ ~Contains(line, <<",">>)
     \/ EndsWith(line, <<",">> \o r.name)
  /\ r.id = <<>> \/ Contains(line, Quoted(TVG_ID, r.id))
  /\ r.logo = <<>> \/ Contains(line, Quoted(TVG_LOGO, r.logo))
  /\ r.group = General \/ Contains(line, Quoted(GROUP_TITLE, r.group))

\* C8: every emitted record has a non-empty url that starts with "http" and
\* has name, id, logo and group, each parsed from a metadata line of the
\* input or equal to its default.
C8_WellFormed ==
  \A k \in 1..Len(channels) :
    /\ DOMAIN channels[k] = FieldNames
    /\ channels[k].url # <<>>
    /\ StartsWith(channels[k].url, HTTP)
    /\ \E m \in 1..(idx - 1) : FromMetadata(channels[k], LineAt(m))

\* the parse is over and gave a record that mixes parsed text and defaults
C8_Witness ==
  /\ ppc = "done"
  /\ \E k \in 1..Len(channels) :
       /\ channels[k].name = Unknown /\ channels[k].id = <<>>
       /\ channels[k].group # General

\* C9: a URL line that follows two or more #EXTINF lines with no URL line
\* between them emits exactly one record, with the name, id, logo and group
\* of the last of these lines; scanning an #EXTINF line emits nothing.
C9_DanglingDropped ==
  [][/\ (Scans /\ IsUrlLine(LineAt(idx))
           /\ Cardinality(MetasBefore(idx)) >= 2) =>
          LET e == ExtinfChannel(LineAt(SetMax(MetasBefore(idx))))
              r == channels'[Len(channels')]
          IN  /\ Len(channels') = Len(channels) + 1
              /\ SubSeq(channels', 1, Len(channels)) = channels
              /\ r.name = e.name /\ r.id = e.id
              /\ r.logo = e.logo /\ r.group = e.group
              /\ r.url = LineAt(idx)
     /\ (Scans /\ IsExtinfLine(LineAt(idx))) => channels' = channels
    ]_vars

\* a URL line has just closed a run of two #EXTINF lines that differ
C9_Witness ==
  /\ idx >= 4 /\ IsUrlLine(LineAt(idx - 1)) /\ Len(channels) = 1
  /\ IsExtinfLine(LineAt(idx - 2)) /\ IsExtinfLine(LineAt(idx - 3))
  /\ ExtinfChannel(LineAt(idx - 2)) # ExtinfChannel(LineAt(idx - 3))

\* C10: a URL line with no #EXTINF line between it and the previous URL line
\* (or the start of the input) emits nothing and leaves the emitted records
\* as they are.
C10_OrphanDropped ==
  [][(Scans /\ IsUrlLine(LineAt(idx)) /\ MetasBefore(idx) = {}) =>
       channels' = channels]_vars

\* a second URL line has been scanned right after one that closed a record
C10_Witness ==
  /\ idx >= 4 /\ Len(channels) = 1
  /\ IsExtinfLine(LineAt(idx - 3))
  /\ IsUrlLine(LineAt(idx - 2)) /\ IsUrlLine(LineAt(idx - 1))

\* the well-formed attribute key="..." occurs somewhere in the line
AttrPresent(line, key) ==
  \E k \in 1..Len(line) :
    /\ StartsWithAt(line, k, key \o <<"=", "\"">>)
    /\ \E j \in (k + Len(key) + 2)..Len(line) : line[j] = "\""

\* C11: the record emitted for a metadata line and its URL line has id ""
\* when the line has no tvg-id attribute, logo "" when it has no tvg-logo
\* attribute, group "General" when it has no group-title attribute and name
\* "Unknown" when it has no comma, each whatever the other attributes are.
C11_Defaults ==
  [][(Scans /\ IsUrlLine(LineAt(idx)) /\ MetasBefore(idx) # {}) =>
       LET m == LineAt(SetMax(MetasBefore(idx)))
           r == channels'[Len(channels')]
       IN  /\ Len(channels') = Len(channels) + 1
           /\ ~AttrPresent(m, TVG_ID) => r.id = <<>>
           /\ ~AttrPresent(m, TVG_LOGO) => r.logo = <<>>
           /\ ~AttrPresent(m, GROUP_TITLE) => r.group = General
           /\ ~Contains(m, <<",">>) => r.name = Unknown
    ]_vars

\* "#EXTINF:-1,B" and "http://x" gave the record with the three defaults
C11_Witness ==
  /\ ppc = "done"
  /\ \E k \in 1..Len(channels) :
       /\ channels[k].name = <<"B">> /\ channels[k].url = LineUrlX
       /\ channels[k].id = <<>> /\ channels[k].logo = <<>>
       /\ channels[k].group = General

\* the URL lines scanned so far that close a pending record
CompletingBefore(i) ==
  {j \in 1..(i - 1) : IsUrlLine(LineAt(j)) /\ MetasBefore(j) # {}}

\* the k-th smallest element of a set of numbers
Kth(S, k) == CHOOSE x \in S : Cardinality({y \in S : y < x}) = k - 1

\* C12: the emitted records are in the order of the URL lines that completed
\* them: the url of the k-th record is the k-th completing URL line.
C12_OrderPreserved ==
  /\ Len(channels) = Cardinality(CompletingBefore(idx))
  /\ \A k \in 1..Len(channels) :
       channels[k].url = LineAt(Kth(CompletingBefore(idx), k))

\* two records with different urls were emitted
C12_Witness ==
  /\ ppc = "done" /\ Len(channels) = 2
  /\ channels[1].url # channels[2].url

\* the number of trailing lines that are all #EXTINF lines
TrailingMetas ==
  {k \in 1..Len(lines) :
     \A j \in (Len(lines) - k + 1)..Len(lines) : IsExtinfLine(LineAt(j))}

\* C16: a text that ends in one or more #EXTINF lines with no URL line after
\* them parses to the same records as the text without those lines.
C16_TrailingMetaDiscarded ==
  ppc = "done" =>
    \A k \in TrailingMetas :
      channels = parse_m3u(JoinLines(SubSeq(lines, 1, Len(lines) - k)))

\* a record was emitted and two #EXTINF lines were appended after it
C16_Witness ==
  /\ ppc = "done" /\ Len(channels) = 1
  /\ 2 \in TrailingMetas
  /\ Truthy(current_channel)

\* C19: one record is emitted for each URL line that has an #EXTINF line
\* between it and the previous URL line (or the start) and no other record;
\* the record's fields come from the last such #EXTINF line, its url is the
\* first URL line after that line, and there are no more records than
\* #EXTINF lines and no more than URL lines.
C19_Pairing ==
  LET closed == CompletingBefore(idx)
      scanned == 1..(idx - 1)
  IN  /\ Len(channels) = Cardinality(closed)
      /\ \A k \in 1..Len(channels) :
           LET j == Kth(closed, k)
               m == SetMax(MetasBefore(j))
           IN  /\ FromMetadata(channels[k], LineAt(m))
               /\ channels[k].url = LineAt(j)
               /\ j = SetMin({u \in (m + 1)..Len(lines) : IsUrlLine(LineAt(u))})
      /\ Len(channels) <= Cardinality({j \in scanned : IsExtinfLine(LineAt(j))})
      /\ Len(channels) <= Cardinality({j \in scanned : IsUrlLine(LineAt(j))})

\* one record out of two #EXTINF lines and two URL lines
C19_Witness ==
  /\ ppc = "done" /\ Len(channels) = 1
  /\ Cardinality({j \in 1..Len(lines) : IsExtinfLine(LineAt(j))}) = 2
  /\ Cardinality({j \in 1..Len(lines) : IsUrlLine(LineAt(j))}) = 2

\* C17: requests.get is called only inside a call of get_channels() and at
\* most once per call, so in a sequential run there are never more fetches
\* than calls; a failure is followed by no retry until the next call.
C17_RetryOnDemand ==
  /\ fetches <= calls
  /\ \A c \in SeqCallers : fetched[c] <= 1

\* a fetch failed, time passed, and the one fetch is still the only one
C17_Witness ==
  /\ \A c \in SeqCallers : pc[c] = "idle"
  /\ lastFailed /\ ticks > 0
  /\ calls = 1 /\ fetches = 1

\* the atomic categories of a group, read off its text: each maximal stretch
\* without ";" between two ";" (or the ends), trimmed, unless it is empty
AtomsOf(g) ==
  LET stretches ==
        {p \in (1..(Len(g) + 1)) \X (0..Len(g)) :
           /\ p[2] >= p[1] - 1
           /\ p[1] = 1 \/ g[p[1] - 1] = ";"
           /\ p[2] = Len(g) \/ g[p[2] + 1] = ";"
           /\ \A k \in p[1]..p[2] : g[k] # ";"}
  IN  {Strip(SubSeq(g, p[1], p[2])) : p \in stretches} \ {<<>>}

\* C13: list_categories returns exactly the atomic categories of the stored
\* records' groups, in strictly ascending order by code point (hence without
\* duplicates), none of them empty and none containing ";".
C13_CategoryListing ==
  handler = "list_categories" =>
    /\ Range(response) = UNION {AtomsOf(c.group) : c \in Range(data.val)}
    /\ \A k \in 1..(Len(response) - 1) : StrLess(response[k], response[k + 1])
    /\ \A k \in 1..Len(response) :
         response[k] # <<>> /\ ~Contains(response[k], <<";">>)

\* "News;Sports" and " news ; ;Sports;" were listed as News, Sports, news
C13_Witness ==
  /\ handler = "list_categories"
  /\ response = <<News, Sports, Lower(News)>>
  /\ \E c \in Range(data.val) : c.group # Strip(c.group)

\* the records of chs, in their order, that pass the filters that are on
Selected(chs, cat, srch, catOn, srchOn) ==
  LET keep(c) ==
        /\ catOn => c.group = cat.value
        /\ srchOn => \/ Contains(Lower(c.name), Lower(srch.value))
                     \/ Contains(Lower(c.group), Lower(srch.value))
  IN  SelectSeq(chs, keep)

\* C14 as stated: with each filter on when its parameter is given
C14_Original ==
  handler = "list_channels" =>
    response = Selected(data.val, args.category, args.search,
                        args.category.given, args.search.given)

\* C14, amended: list_channels returns exactly the records, in their order,
\* whose group equals the category and whose lowercased name or group
\* contains the lowercased search term, where the category filter is on when
\* a non-empty category is given and the search filter when a search term is
\* given; a non-empty category that matches no record yields the empty list.
C14_FilterComposition ==
  handler = "list_channels" =>
    /\ response = Selected(data.val, args.category, args.search,
                           args.category.given /\ args.category.value # <<>>,
                           args.search.given)
    /\ (/\ args.category.given /\ args.category.value # <<>>
        /\ \A c \in Range(data.val) : c.group # args.category.value)
         => response = <<>>

\* both filters were on and kept one record of two
C14_Witness ==
  /\ handler = "list_channels"
  /\ args.category = Arg(News) /\ args.search.given
  /\ args.search.value # <<>>
  /\ Len(data.val) = 2 /\ Len(response) = 1
  /\ \A c \in Range(data.val) :
       Contains(Lower(c.group), Lower(args.search.value))

\* C15 as stated: whatever category is supplied, the empty string included,
\* every returned record has exactly that group
C15_Original ==
  (handler = "list_channels" /\ args.category.given) =>
    \A k \in 1..Len(response) : response[k].group = args.category.value

\* C15, amended: whenever a non-empty category is supplied, every returned
\* record has exactly that group (a "News;Sports" record is not returned for
\* "News"); a supplied empty category applies no category filter.
C15_ExactCategory ==
  (handler = "list_channels" /\ args.category.given) =>
    IF args.category.value # <<>>
    THEN \A k \in 1..Len(response) : response[k].group = args.category.value
    ELSE response = Selected(data.val, args.category, args.search,
                             FALSE, args.search.given)

\* category News on a News record and a News;Sports record: one returned
C15_Witness ==
  /\ handler = "list_channels"
  /\ args.category = Arg(News)
  /\ \E c \in Range(data.val) : c.group = News \o <<";">> \o Sports
  /\ Len(response) = 1 /\ response[1].group = News

\* C18: serving a request to either route leaves the stored list, every
\* stored record and the expiry of the cache entry as they were.
C18_QueriesReadOnly == [][data' = data /\ link' = link]_vars

\* a filtered listing shorter than the stored list was served
C18_Witness ==
  /\ handler = "list_channels"
  /\ Len(response) < Len(data.val)
  /\ Len(data.val) = MaxRecords
====
